---------------------------- MODULE Spec2Model ----------------------------
(***************************************************************************)
(* Fingertip detection scripts of canvas-cowork:                           *)
(*   detect_fingers_peaks.py  (radial profile + peak detection)            *)
(*   detect_fingers_polar.py  (convex hull + angular clustering)           *)
(*   detect_fingers_v1.py     (convexity defects)                          *)
(* One invocation of one script is a run of the state machine below.      *)
(* Points are <<x, y>> in image coordinates (y grows downward); p[1] is    *)
(* the x of the source's pt[0] and p[2] the y of the source's pt[1].       *)
(* Sequences are 1-based here and 0-based in the source.                   *)
(* OpenCV, numpy and scipy calls are modelled by what the call returns;    *)
(* what findContours, distanceTransform and convexityDefects return for a  *)
(* given image is part of the input (the variable scene).                  *)
(***************************************************************************)
EXTENDS Integers, Sequences, FiniteSets

VARIABLES
    script,        \* "peaks" | "polar" | "v1": which script runs
    img,           \* the decoded input image
    scene,         \* what the geometry library calls return for this image
    pc,            \* stage reached by the invocation
    binary,        \* mask after thresholding and the corner rule, before opening
    mask,          \* mask after the morphological opening
    max_cnt,       \* the largest contour
    palm,          \* [cx, cy, palm_radius]
    cand,          \* generated candidates (peaks / hull candidates / defects)
    filtered,      \* final_fingers after the y filter (peaks script)
    final_fingers, \* the fingertip points drawn and counted
    count,         \* the count written on the output
    written        \* TRUE once cv2.imwrite has produced the output file

vars == <<script, img, scene, pc, binary, mask, max_cnt, palm, cand, filtered,
          final_fingers, count, written>>

-----------------------------------------------------------------------------
(* Bounds of the model *)

Width == 7
Height == 6
MaxLead == 3
MaxGap == 7
PadLen == 16

(* Constants of the program *)

KernelSize == 5
WindowSize == 21
MaxFingers == 5
AngleThresh == 3000
Pi == 31416
DepthThresh == 3000

\* values of the variables that no statement has assigned yet
NoMask == {<< -1, -1 >>}
NoPalm == [cx |-> -1, cy |-> -1, palm_radius |-> -1]
NoCount == 0 - 1

-----------------------------------------------------------------------------
(* Generic helpers *)

Abs(a) == IF a < 0 THEN -a ELSE a

Max(a, b) == IF a >= b THEN a ELSE b

Min(a, b) == IF a <= b THEN a ELSE b

Range(s) == {s[i] : i \in 1..Len(s)}

RECURSIVE IsqrtFrom(_, _)
IsqrtFrom(n, k) == IF (k + 1) * (k + 1) > n THEN k ELSE IsqrtFrom(n, k + 1)

\* floor of the square root
Isqrt(n) == IsqrtFrom(n, 0)

\* squared Euclidean distance of p from c
Dist2(p, c) == (p[1] - c[1]) * (p[1] - c[1]) + (p[2] - c[2]) * (p[2] - c[2])

\* np.linalg.norm(p - c); exact on the points the model draws, whose squared
\* distance from the palm center is a perfect square
Norm(p, c) == Isqrt(Dist2(p, c))

\* list.sort(key=...): a stable sort by an integer key, ascending.  Elements
\* with equal keys keep their order (also under reverse=True, which is a
\* stable sort by the negated key).
SortStable(s, Key(_)) ==
    LET rank(i) == Cardinality({j \in 1..Len(s) : Key(s[j]) < Key(s[i])})
                   + Cardinality({j \in 1..i : Key(s[j]) = Key(s[i])})
    IN  [k \in 1..Len(s) |-> s[CHOOSE i \in 1..Len(s) : rank(i) = k]]

\* number of occurrences of e in s
Occ(s, e) == Cardinality({i \in 1..Len(s) : s[i] = e})

\* the elements of list at the positions in the set idx, in list order
RECURSIVE Pick(_, _, _)
Pick(list, idx, i) ==
    IF i > Len(list) THEN << >>
    ELSE (IF i \in idx THEN << list[i] >> ELSE << >>) \o Pick(list, idx, i + 1)

Repeat(e, n) == [i \in 1..n |-> e]

-----------------------------------------------------------------------------
(* SilhouetteExtractor: threshold, corner rule, opening *)

Pixels == (0..(Width - 1)) \X (0..(Height - 1))

TopLeft == << 0, 0 >>
TopRight == << Width - 1, 0 >>
BottomLeft == << 0, Height - 1 >>
BottomRight == << Width - 1, Height - 1 >>

\* cv2.bitwise_not(mask)
BitwiseNot(m) == Pixels \ m

\* mask[0,0] == 255 and mask[-1,-1] == 255
CornersWhite(m) == TopLeft \in m /\ BottomRight \in m

\* the binary mask of the peaks / polar / v2 scripts before the opening: the
\* alpha threshold for a 4-channel image, else Otsu and the corner rule.
\* im.thresh is what cv2.threshold classifies as 255.
Binarize(im) ==
    IF im.alpha THEN im.thresh
    ELSE IF CornersWhite(im.thresh) THEN BitwiseNot(im.thresh)
    ELSE im.thresh

\* the pixels of the image under the KernelSize x KernelSize window anchored at p
Window(p) ==
    (Max(0, p[1] - KernelSize \div 2)..Min(Width - 1, p[1] + KernelSize \div 2))
    \X (Max(0, p[2] - KernelSize \div 2)..Min(Height - 1, p[2] + KernelSize \div 2))

\* cv2.erode with the default border: pixels outside the image do not erode
Erode(m) == {p \in Pixels : Window(p) \subseteq m}

\* cv2.dilate with the default border: pixels outside the image add nothing
Dilate(m) == {p \in Pixels : Window(p) \cap m # {}}

\* cv2.morphologyEx(mask, cv2.MORPH_OPEN, kernel)
MorphOpen(m) == Dilate(Erode(m))

-----------------------------------------------------------------------------
(* RadialPeakStrategy: detect_fingers_peaks.py *)

PeakDistDivisor == 20
HeightNum == 14
HeightDen == 10

\* distances = np.linalg.norm(points - np.array([cx, cy]), axis=1)
RECURSIVE Distances(_, _)
Distances(points, c) ==
    IF points = << >> THEN << >>
    ELSE << Norm(Head(points), c) >> \o Distances(Tail(points), c)

\* index i of a periodic signal of length n, brought back into 1..n
Wrap(i, n) == ((i - 1) % n) + 1

RECURSIVE WindowSum(_, _, _, _)
WindowSum(d, i, k, last) ==
    IF k > last THEN 0
    ELSE d[Wrap(i + k, Len(d))] + WindowSum(d, i, k + 1, last)

\* np.pad(distances, (window_size//2, window_size//2), mode='wrap') followed by
\* np.convolve(padded, ones(window_size) / window_size, mode='valid').
\* The result is kept as the window SUM, WindowSize times the moving average,
\* so that it stays an integer.
RECURSIVE SmoothFrom(_, _)
SmoothFrom(d, i) ==
    IF i > Len(d) THEN << >>
    ELSE << WindowSum(d, i, -(WindowSize \div 2), WindowSize \div 2) >>
         \o SmoothFrom(d, i + 1)

SmoothSum(d) == SmoothFrom(d, 1)

\* the last index of the flat run of x that starts at l
RECURSIVE RunEnd(_, _, _)
RunEnd(x, l, r) ==
    IF r < Len(x) /\ x[r + 1] = x[l] THEN RunEnd(x, l, r + 1) ELSE r

\* scipy _local_maxima_1d: the midpoint of every flat run of samples that is
\* strictly higher than the sample before it and the sample after it.  The
\* first and the last sample of the array have no neighbour on one side and
\* are never a peak.
LocalMaxima(x) ==
    {(l + RunEnd(x, l, l)) \div 2 : l \in
        {k \in 2..(Len(x) - 1) :
            /\ x[k - 1] < x[k]
            /\ RunEnd(x, k, k) < Len(x)
            /\ x[RunEnd(x, k, k) + 1] < x[k]}}

\* height=palm_radius * 1.4, on the window sums
HighEnough(s, radius) == HeightDen * s >= HeightNum * WindowSize * radius

\* ceil(len(points) / 20)
PeakDistance(n) == (n + PeakDistDivisor - 1) \div PeakDistDivisor

\* scipy _select_by_peak_distance: peaks are visited from the highest to the
\* lowest (argsort of the heights read from its end: among equal heights the
\* later peak first); a peak still kept removes every other peak closer than
\* dist samples.  Indices are compared as array positions, not cyclically.
RECURSIVE SelectByDistance(_, _, _, _, _)
SelectByDistance(x, all, todo, keep, dist) ==
    IF todo = {} THEN keep
    ELSE LET j == CHOOSE q \in todo :
                    \A o \in todo : x[o] < x[q] \/ (x[o] = x[q] /\ o <= q)
         IN  IF j \in keep
             THEN SelectByDistance(x, all, todo \ {j},
                      keep \ {q \in all : q # j /\ Abs(q - j) < dist}, dist)
             ELSE SelectByDistance(x, all, todo \ {j}, keep, dist)

\* the members of a set of integers as an ascending sequence
RECURSIVE Ascending(_)
Ascending(S) ==
    IF S = {} THEN << >>
    ELSE LET m == CHOOSE a \in S : \A b \in S : a <= b
         IN  << m >> \o Ascending(S \ {m})

\* find_peaks(distances_smooth, height=palm_radius * 1.4, distance=len(points)/20)
\* for len(points) >= 20: positions of the accepted peaks, ascending
FindPeaks(x, radius) ==
    LET high == {q \in LocalMaxima(x) : HighEnough(x[q], radius)}
    IN  Ascending(SelectByDistance(x, high, high, high, PeakDistance(Len(x))))

\* the peaks of the contour points around palm center c
RadialPeaks(points, c, radius) == FindPeaks(SmoothSum(Distances(points, c)), radius)

\* every peak point, whatever its y
YFilterNone(points, peaks, p) == [i \in 1..Len(peaks) |-> points[peaks[i]]]

\* lines 69-74: the peak points that are above cy + palm_radius
YFilter(points, peaks, p) ==
    LET pts == [i \in 1..Len(peaks) |-> points[peaks[i]]]
    IN  SelectSeq(pts, LAMBDA pt : pt[2] < p.cy + p.palm_radius)

\* the nearest first
SortByDistanceAscending(s, c) == SortStable(s, LAMBDA pt : Dist2(pt, c))

\* final_fingers.sort(key=distance from the center, reverse=True)
SortByDistance(s, c) == SortStable(s, LAMBDA pt : -Dist2(pt, c))

\* final_fingers.sort(key=lambda p: p[0])
SortByX(s) == SortStable(s, LAMBDA pt : pt[1])

\* lines 77-83: cap at the farthest MaxFingers, then order by x
Selector(s, c) ==
    SortByX(IF Len(s) > MaxFingers
            THEN SubSeq(SortByDistance(s, c), 1, MaxFingers)
            ELSE s)

Center(p) == << p.cx, p.cy >>

-----------------------------------------------------------------------------
(* HullAngularClusterStrategy: detect_fingers_polar.py *)

DistNum == 15
DistDen == 10
YNum == 5
YDen == 10

\* (a - o) x (b - o)
Cross(o, a, b) == (a[1] - o[1]) * (b[2] - o[2]) - (a[2] - o[2]) * (b[1] - o[1])

\* (a - o) . (b - o)
Dot(o, a, b) == (a[1] - o[1]) * (b[1] - o[1]) + (a[2] - o[2]) * (b[2] - o[2])

\* p is a vertex of the convex hull of the points P: some line through p and
\* another point q has every other point strictly on one side, or on the line
\* on q's side of p
IsHullVertex(p, P) ==
    \/ P \ {p} = {}
    \/ \E q \in P \ {p} :
         \A r \in P \ {p, q} :
            \/ Cross(p, q, r) > 0
            \/ Cross(p, q, r) = 0 /\ Dot(p, q, r) > 0

\* cv2.convexHull(max_cnt, returnPoints=True): the hull vertices of the contour
ConvexHull(cnt) == SelectSeq(cnt, LAMBDA p : IsHullVertex(p, Range(cnt)))

\* math.atan2(dy, dx) in units of 1e-4 rad, for the offsets of the contour
\* points the model draws from the palm center
Atan2(dy, dx) ==
    CASE dy = 2 /\ dx = -20 -> 30419
      [] dy = -2 /\ dx = -20 -> -30419
      [] dy = -14 /\ dx = -14 -> -23562
      [] dy = -19 /\ dx = -6 -> -18767
      [] dy = -20 /\ dx = -2 -> -16705
      [] dy = -20 /\ dx = 2 -> -14711
      [] dy = -6 /\ dx = 19 -> -3059
      [] dy = 0 /\ dx = 20 -> 0
      [] dy = 3 /\ dx = 20 -> 1489
      [] dy = -6 /\ dx = -8 -> -24981
      [] dy = 12 /\ dx = -16 -> 24981

\* lines 53-60: dist > palm_radius * 1.5 and pt[1] < cy + palm_radius * 0.5.
\* dist2 is the squared dist; both are compared without the square root.
IsCandidate(pt, p) ==
    /\ DistDen * DistDen * Dist2(pt, Center(p))
         > DistNum * DistNum * p.palm_radius * p.palm_radius
    /\ YDen * pt[2] < YDen * p.cy + YNum * p.palm_radius

Candidate(pt, p) ==
    [pt |-> pt, angle |-> Atan2(pt[2] - p.cy, pt[1] - p.cx),
     dist2 |-> Dist2(pt, Center(p))]

\* lines 50-63: the candidates, sorted by angle
Candidates(hull, p) ==
    LET kept == SelectSeq(hull, LAMBDA pt : IsCandidate(pt, p))
    IN  SortStable([i \in 1..Len(kept) |-> Candidate(kept[i], p)],
                   LAMBDA c : c.angle)

\* lines 76-81: the gap between two candidates next to each other in the list
AngleGap(a, b) ==
    LET diff == a - b
        up == IF diff < -Pi THEN diff + 2 * Pi ELSE diff
        down == IF up > Pi THEN up - 2 * Pi ELSE up
    IN  Abs(down)

\* the first candidate of the cluster
FirstOf(cluster) == cluster[1]

\* max(current_cluster, key=lambda x: x['dist']): the first of the farthest
BestOf(cluster) ==
    cluster[CHOOSE i \in 1..Len(cluster) :
               /\ \A j \in 1..Len(cluster) : cluster[j].dist2 <= cluster[i].dist2
               /\ \A j \in 1..(i - 1) : cluster[j].dist2 < cluster[i].dist2]

\* lines 75-92: the walk over candidates[i], i >= 1 (0-based)
RECURSIVE ClusterWalk(_, _, _, _)
ClusterWalk(cands, i, current, merged) ==
    IF i > Len(cands) THEN Append(merged, BestOf(current))
    ELSE IF AngleGap(cands[i].angle, cands[i - 1].angle) < AngleThresh
         THEN ClusterWalk(cands, i + 1, Append(current, cands[i]), merged)
         ELSE ClusterWalk(cands, i + 1, << cands[i] >>,
                          Append(merged, BestOf(current)))

\* lines 65-92: merged_fingers
MergeFingers(cands) ==
    IF cands = << >> THEN << >>
    ELSE ClusterWalk(cands, 2, << cands[1] >>, << >>)

-----------------------------------------------------------------------------
(* ConvexityDefectStrategy: detect_fingers_v1.py *)

DepthScale == 256

\* lines 68-77, angle <= 90: the angle at far between start and end.  A side
\* b or c of length 0 makes the quotient nan, and nan <= 90 is false.  The
\* angle is at most 90 degrees exactly when b^2 + c^2 - a^2 >= 0.
AngleAtMost90(df) ==
    LET a2 == Dist2(df.end, df.start)
        b2 == Dist2(df.far, df.start)
        c2 == Dist2(df.end, df.far)
    IN  b2 # 0 /\ c2 # 0 /\ b2 + c2 - a2 >= 0

\* a depth equal to the threshold counts too
IsValleyAtLeast(df) == AngleAtMost90(df) /\ df.d >= DepthThresh

\* line 77
IsValley(df) == AngleAtMost90(df) /\ df.d > DepthThresh

\* lines 55-78: defect_count
DefectCount(defects) == Cardinality({i \in 1..Len(defects) : IsValley(defects[i])})

\* line 83
EstimatedFingers(defects) == DefectCount(defects) + 1

-----------------------------------------------------------------------------
(* Inputs *)

UnreadableImage == [readable |-> FALSE, alpha |-> FALSE, thresh |-> {}]

\* a transparent image with one opaque block that survives the opening
BlobImage ==
    [readable |-> TRUE, alpha |-> TRUE,
     thresh |-> {p \in Pixels : p[1] < KernelSize /\ p[2] < KernelSize}]

PeakCenter == << 30, 30 >>

\* contour points on finger tips, each at an integer distance from PeakCenter
TipUniverse ==
    << << 6, 23 >>, << 18, 14 >>, << 21, 18 >>, << 30, 5 >>, << 14, 42 >>,
       << 37, 6 >>, << 42, 14 >>, << 50, 15 >>, << 54, 23 >> >>

\* the contour point between two finger tips
Valley == << 30, 20 >>

PeakRadii == {8, 14}

RECURSIVE Spread(_, _)
Spread(tips, gap) ==
    IF tips = << >> THEN << >>
    ELSE << Head(tips) >> \o Repeat(Valley, gap) \o Spread(Tail(tips), gap)

\* a closed contour trace: lead valley points, then every tip followed by gap
\* valley points, then pad more valley points
ContourOf(tips, gap, lead, pad) ==
    Repeat(Valley, lead) \o Spread(tips, gap) \o Repeat(Valley, pad)

PeakScenes ==
    {[contour |-> ContourOf(Pick(TipUniverse, idx, 1), gap, lead, pad),
      max_loc |-> PeakCenter, max_dist |-> r, defects |-> << >>] :
        idx \in SUBSET (1..Len(TipUniverse)), gap \in {MaxGap},
        lead \in {0, MaxLead}, pad \in {PadLen}, r \in PeakRadii}

PeakInputs ==
    {[script |-> "peaks", img |-> BlobImage, scene |-> sc] :
        sc \in {s \in PeakScenes : Len(s.contour) > 0}}

PolarCenter == << 30, 30 >>

\* vertices of a contour traced with CHAIN_APPROX_SIMPLE
PolarUniverse ==
    << << 10, 32 >>, << 10, 28 >>, << 16, 16 >>, << 24, 11 >>, << 28, 10 >>,
       << 32, 10 >>, << 49, 24 >>, << 50, 30 >>, << 50, 33 >>,
       << 22, 24 >>, << 14, 42 >> >>

\* masks of the thresholded image: a rectangle and any of the four corners
Rect(x0, y0, w, h) ==
    {p \in Pixels : x0 <= p[1] /\ p[1] < x0 + w /\ y0 <= p[2] /\ p[2] < y0 + h}

ThreshMasks ==
    {Rect(x0, x0, w, h) \cup cs :
        x0 \in 0..1, w \in {0, KernelSize - 1, KernelSize, Width},
        h \in {KernelSize - 1, KernelSize, Height},
        cs \in SUBSET {TopLeft, TopRight, BottomLeft, BottomRight}}

BaseScene ==
    [contour |-> ContourOf(Pick(TipUniverse, {1, 4, 6}, 1), MaxGap, MaxLead, PadLen),
     max_loc |-> PeakCenter, max_dist |-> 10, defects |-> << >>]

PolarBaseScene ==
    [contour |-> Pick(PolarUniverse, {2, 3, 5}, 1), max_loc |-> PolarCenter,
     max_dist |-> 12, defects |-> << >>]

SceneFor(s) == IF s = "polar" THEN PolarBaseScene ELSE BaseScene

MaskInputs ==
    {[script |-> s, img |-> [readable |-> TRUE, alpha |-> a, thresh |-> m],
      scene |-> SceneFor(s)] :
        s \in {"peaks", "polar"}, a \in BOOLEAN, m \in ThreshMasks}
    \cup {[script |-> s, img |-> UnreadableImage, scene |-> SceneFor(s)] :
            s \in {"peaks", "polar"}}

PolarRadii == {4, 12}

PolarInputs ==
    {[script |-> "polar", img |-> BlobImage,
      scene |-> [contour |-> Pick(PolarUniverse, idx, 1), max_loc |-> PolarCenter,
                 max_dist |-> r, defects |-> << >>]] :
        idx \in (SUBSET (1..Len(PolarUniverse))) \ {{}}, r \in PolarRadii}

\* cv2.convexityDefects: the depth of far below the hull edge start-end,
\* as a fixed-point number with 8 fractional bits (the edges the model draws
\* have an integer length)
FixptDepth(start, end, far) ==
    (2 * DepthScale * Abs(Cross(start, end, far)) + Norm(end, start))
        \div (2 * Norm(end, start))

Defect(start, end, far) ==
    [start |-> start, end |-> end, far |-> far, d |-> FixptDepth(start, end, far)]

DefectUniverse ==
    << Defect(<< 10, 10 >>, << 24, 10 >>, << 17, 22 >>),
       Defect(<< 30, 10 >>, << 44, 10 >>, << 37, 22 >>),
       Defect(<< 50, 10 >>, << 64, 10 >>, << 57, 22 >>),
       Defect(<< 70, 10 >>, << 84, 10 >>, << 77, 22 >>),
       Defect(<< 10, 40 >>, << 34, 40 >>, << 22, 52 >>),
       Defect(<< 40, 40 >>, << 70, 40 >>, << 55, 52 >>),
       Defect(<< 10, 60 >>, << 20, 60 >>, << 15, 71 >>),
       Defect(<< 80, 40 >>, << 87, 64 >>, << 85, 99 >>),
       Defect(<< 10, 80 >>, << 20, 80 >>, << 10, 80 >>) >>

DefectInputs ==
    {[script |-> "v1", img |-> [readable |-> TRUE, alpha |-> a, thresh |-> BlobImage.thresh],
      scene |-> [contour |-> BaseScene.contour, max_loc |-> PeakCenter,
                 max_dist |-> 10, defects |-> Pick(DefectUniverse, idx, 1)]] :
        idx \in SUBSET (1..Len(DefectUniverse)), a \in BOOLEAN}
    \cup {[script |-> "v1", img |-> UnreadableImage, scene |-> BaseScene],
          [script |-> "v1",
           img |-> [readable |-> TRUE, alpha |-> FALSE, thresh |-> {TopLeft}],
           scene |-> BaseScene]}

Inputs == PeakInputs \cup MaskInputs \cup PolarInputs \cup DefectInputs

-----------------------------------------------------------------------------
(* The invocation *)

Init ==
    /\ \E inp \in Inputs :
        /\ script = inp.script
        /\ img = inp.img
        /\ scene = inp.scene
    /\ pc = "Idle"
    /\ binary = NoMask
    /\ mask = NoMask
    /\ max_cnt = << >>
    /\ palm = NoPalm
    /\ cand = << >>
    /\ filtered = << >>
    /\ final_fingers = << >>
    /\ count = NoCount
    /\ written = FALSE

\* cv2.imread returns None: the script returns
ReadFails ==
    /\ pc = "Idle"
    /\ ~img.readable
    /\ pc' = "ImageLoadError"
    /\ UNCHANGED <<script, img, scene, binary, mask, max_cnt, palm, cand,
                   filtered, final_fingers, count, written>>

\* peaks lines 21-36, polar lines 18-30
Extract ==
    /\ pc = "Idle"
    /\ script \in {"peaks", "polar"}
    /\ img.readable
    /\ binary' = Binarize(img)
    /\ mask' = MorphOpen(binary')
    /\ pc' = "Extracted"
    /\ UNCHANGED <<script, img, scene, max_cnt, palm, cand, filtered,
                   final_fingers, count, written>>

\* a contour whatever the mask
AlwaysHasContours(m) == TRUE

\* cv2.findContours returns a contour exactly when the mask has a foreground
\* pixel
HasContours(m) == m # {}

\* "if not contours: return"
NoContours ==
    /\ pc = "Extracted"
    /\ ~HasContours(mask)
    /\ pc' = "NoContourError"
    /\ UNCHANGED <<script, img, scene, binary, mask, max_cnt, palm, cand,
                   filtered, final_fingers, count, written>>

\* max_cnt = max(contours, key=cv2.contourArea)
FindContours ==
    /\ pc = "Extracted"
    /\ HasContours(mask)
    /\ max_cnt' = scene.contour
    /\ pc' = "Contoured"
    /\ UNCHANGED <<script, img, scene, binary, mask, palm, cand, filtered,
                   final_fingers, count, written>>

\* distanceTransform and minMaxLoc
LocatePalm ==
    /\ pc = "Contoured"
    /\ script \in {"peaks", "polar"}
    /\ palm' = [cx |-> scene.max_loc[1], cy |-> scene.max_loc[2],
                palm_radius |-> scene.max_dist]
    /\ pc' = "PalmLocated"
    /\ UNCHANGED <<script, img, scene, binary, mask, max_cnt, cand, filtered,
                   final_fingers, count, written>>

\* peaks line 65 with len(points) / 20 < 1: find_peaks raises ValueError
\* ("`distance` must be greater or equal to 1"), which nothing catches
FindPeaksRaises ==
    /\ pc = "PalmLocated"
    /\ script = "peaks"
    /\ Len(max_cnt) < PeakDistDivisor
    /\ pc' = "ValueError"
    /\ UNCHANGED <<script, img, scene, binary, mask, max_cnt, palm, cand,
                   filtered, final_fingers, count, written>>

\* find_peaks accepts its distance argument
PeaksReady ==
    /\ pc = "PalmLocated"
    /\ script = "peaks"
    /\ Len(max_cnt) >= PeakDistDivisor

\* peaks lines 51-65
GeneratePeaks ==
    /\ PeaksReady
    /\ cand' = RadialPeaks(max_cnt, Center(palm), palm.palm_radius)
    /\ pc' = "CandidatesGenerated"
    /\ UNCHANGED <<script, img, scene, binary, mask, max_cnt, palm, filtered,
                   final_fingers, count, written>>

\* peaks lines 67-74
FilterPeaks ==
    /\ pc = "CandidatesGenerated"
    /\ script = "peaks"
    /\ filtered' = YFilter(max_cnt, cand, palm)
    /\ final_fingers' = YFilter(max_cnt, cand, palm)
    /\ pc' = "Filtered"
    /\ UNCHANGED <<script, img, scene, binary, mask, max_cnt, palm, cand,
                   count, written>>

\* peaks lines 77-83
SelectPeaks ==
    /\ pc = "Filtered"
    /\ script = "peaks"
    /\ final_fingers' = Selector(final_fingers, Center(palm))
    /\ pc' = "Selected"
    /\ UNCHANGED <<script, img, scene, binary, mask, max_cnt, palm, cand,
                   filtered, count, written>>

\* peaks lines 86-101
WritePeaks ==
    /\ pc = "Selected"
    /\ script = "peaks"
    /\ count' = Len(final_fingers)
    /\ written' = TRUE
    /\ pc' = "Done"
    /\ UNCHANGED <<script, img, scene, binary, mask, max_cnt, palm, cand,
                   filtered, final_fingers>>

\* cv2.convexHull returns the hull of a contour, never None
PolarReady ==
    /\ pc = "PalmLocated"
    /\ script = "polar"

\* polar lines 44-92
GeneratePolar ==
    /\ PolarReady
    /\ cand' = Candidates(ConvexHull(max_cnt), palm)
    /\ final_fingers' =
         LET merged == MergeFingers(cand')
         IN  [i \in 1..Len(merged) |-> merged[i].pt]
    /\ pc' = "CandidatesGenerated"
    /\ UNCHANGED <<script, img, scene, binary, mask, max_cnt, palm, filtered,
                   count, written>>

\* polar lines 95-108
WritePolar ==
    /\ pc = "CandidatesGenerated"
    /\ script = "polar"
    /\ count' = Len(final_fingers)
    /\ written' = TRUE
    /\ pc' = "Done"
    /\ UNCHANGED <<script, img, scene, binary, mask, max_cnt, palm, cand,
                   filtered, final_fingers>>

\* v1 lines 20-30: the alpha threshold, or the colour range and an opening
ExtractV1 ==
    /\ pc = "Idle"
    /\ script = "v1"
    /\ img.readable
    /\ binary' = img.thresh
    /\ mask' = IF img.alpha THEN img.thresh ELSE MorphOpen(img.thresh)
    /\ pc' = "Extracted"
    /\ UNCHANGED <<script, img, scene, max_cnt, palm, cand, filtered,
                   final_fingers, count, written>>

\* v1 lines 49-83
CountDefects ==
    /\ pc = "Contoured"
    /\ script = "v1"
    /\ cand' = scene.defects
    /\ count' = EstimatedFingers(scene.defects)
    /\ pc' = "CandidatesGenerated"
    /\ UNCHANGED <<script, img, scene, binary, mask, max_cnt, palm, filtered,
                   final_fingers, written>>

\* v1 lines 87-95
WriteV1 ==
    /\ pc = "CandidatesGenerated"
    /\ script = "v1"
    /\ written' = TRUE
    /\ pc' = "Done"
    /\ UNCHANGED <<script, img, scene, binary, mask, max_cnt, palm, cand,
                   filtered, final_fingers, count>>

Next ==
    \/ ReadFails
    \/ Extract
    \/ NoContours
    \/ FindContours
    \/ LocatePalm
    \/ FindPeaksRaises
    \/ GeneratePeaks
    \/ FilterPeaks
    \/ SelectPeaks
    \/ WritePeaks
    \/ GeneratePolar
    \/ WritePolar
    \/ ExtractV1
    \/ CountDefects
    \/ WriteV1

Spec == Init /\ [][Next]_vars

-----------------------------------------------------------------------------
(* Properties *)

Terminal == pc \in {"Done", "ImageLoadError", "NoContourError", "ValueError"}

AscendingX(s) == \A i \in 1..(Len(s) - 1) : s[i][1] <= s[i + 1][1]

\* the smaller of the two arcs between two angles
CircularGap(a, b) == Min(Abs(a - b), 2 * Pi - Abs(a - b))

\* C1: once the peaks script has selected, the fingertips are drawn from the
\* filtered candidates, are in ascending x order, and are all of the filtered
\* candidates when there are at most MaxFingers of them; otherwise there are
\* exactly MaxFingers and no discarded candidate is strictly farther from the
\* palm center than a kept one.
C1_SelectorCap ==
    (script = "peaks" /\ pc \in {"Selected", "Done"}) =>
        /\ \A pt \in Range(final_fingers) : Occ(final_fingers, pt) <= Occ(filtered, pt)
        /\ AscendingX(final_fingers)
        /\ Len(filtered) <= MaxFingers =>
             \A pt \in Range(filtered) : Occ(final_fingers, pt) = Occ(filtered, pt)
        /\ Len(filtered) > MaxFingers =>
             /\ Len(final_fingers) = MaxFingers
             /\ \A out \in {pt \in Range(filtered) :
                               Occ(filtered, pt) > Occ(final_fingers, pt)} :
                  \A in \in Range(final_fingers) :
                     Dist2(out, Center(palm)) <= Dist2(in, Center(palm))

\* more than MaxFingers filtered candidates, one of them discarded although
\* it comes earlier in the list than a kept one that is farther
C1_Witness ==
    /\ script = "peaks"
    /\ pc = "Done"
    /\ Len(filtered) > MaxFingers
    /\ \E i, j \in 1..Len(filtered) :
         /\ i < j
         /\ filtered[i] \notin Range(final_fingers)
         /\ filtered[j] \in Range(final_fingers)
         /\ Dist2(filtered[i], Center(palm)) < Dist2(filtered[j], Center(palm))

\* C2: a run whose mask has no foreground pixel after the opening takes the
\* "if not contours: return" exit, the only step open to it, and produces
\* neither fingertips nor a count nor an output.
C2_EmptyMaskFails ==
    (script \in {"peaks", "polar"} /\ mask = {}) =>
        /\ pc \in {"Extracted", "NoContourError"}
        /\ pc = "Extracted" => (ENABLED NoContours /\ ~ENABLED FindContours)
        /\ final_fingers = << >>
        /\ count = NoCount
        /\ ~written

\* a run ended by the empty-mask exit although the thresholded image had
\* foreground pixels: the opening removed them all
C2_Witness ==
    /\ script \in {"peaks", "polar"}
    /\ pc = "NoContourError"
    /\ mask = {}
    /\ binary # {}

\* a contour trace started k points later
Rotate(points, k) ==
    [i \in 1..Len(points) |-> points[Wrap(i + k, Len(points))]]

\* the contour points RadialPeakStrategy accepts
PeakPoints(points, p) ==
    LET peaks == RadialPeaks(points, Center(p), p.palm_radius)
    IN  {points[peaks[i]] : i \in 1..Len(peaks)}

\* C3: the peaks found on the contour are the peaks found on every cyclic
\* rotation of the contour.
C3_RotationIndependent ==
    (script = "peaks" /\ pc = "CandidatesGenerated") =>
        \A k \in 1..(Len(max_cnt) - 1) :
            PeakPoints(Rotate(max_cnt, k), palm) = {max_cnt[cand[i]] : i \in 1..Len(cand)}

\* C4: two candidates next to each other in circular angular order (the last
\* and the first of the sorted list included) whose circular gap is below the
\* threshold are in one cluster, so they are not both fingertips.
C4_NoSeamSplit ==
    (script = "polar" /\ pc \in {"CandidatesGenerated", "Done"}) =>
        \A i, j \in 1..Len(cand) :
            (/\ j = (i % Len(cand)) + 1
             /\ i # j
             /\ CircularGap(cand[i].angle, cand[j].angle) < AngleThresh)
            => ~(cand[i].pt \in Range(final_fingers)
                 /\ cand[j].pt \in Range(final_fingers))

\* the places in the sorted candidate list where a new cluster starts
ClusterStarts ==
    {1} \cup {i \in 2..Len(cand) :
                CircularGap(cand[i].angle, cand[i - 1].angle) >= AngleThresh}

\* the k-th cluster: the maximal run of candidates from its start up to the
\* next start
ClusterRun(k) ==
    LET starts == Ascending(ClusterStarts)
        last == IF k < Len(starts) THEN starts[k + 1] - 1 ELSE Len(cand)
    IN  starts[k]..last

\* C5: the fingertips of the polar script are one per maximal run of sorted
\* candidates with successive gaps below the threshold, each a candidate of
\* its run that no candidate of the run exceeds in distance from the palm
\* center; two candidates alone, less than the threshold apart on the circle,
\* give one fingertip.
C5_OneTipPerCluster ==
    (script = "polar" /\ pc \in {"CandidatesGenerated", "Done"}) =>
        /\ cand = << >> => final_fingers = << >>
        /\ cand # << >> =>
            /\ Len(final_fingers) = Cardinality(ClusterStarts)
            /\ \A k \in 1..Len(final_fingers) :
                 /\ \E i \in ClusterRun(k) : cand[i].pt = final_fingers[k]
                 /\ \A i \in ClusterRun(k) :
                      Dist2(cand[i].pt, Center(palm))
                        <= Dist2(final_fingers[k], Center(palm))
        /\ (Len(cand) = 2 /\ CircularGap(cand[1].angle, cand[2].angle) < AngleThresh)
             => Len(final_fingers) = 1

\* a cluster of several candidates whose farthest is not its first, next to
\* other clusters
C5_Witness ==
    /\ script = "polar"
    /\ pc = "Done"
    /\ Len(final_fingers) >= 2
    /\ \E k \in 1..Len(final_fingers) :
         /\ Cardinality(ClusterRun(k)) >= 2
         /\ \E i \in ClusterRun(k) :
              Dist2(cand[i].pt, Center(palm)) < Dist2(final_fingers[k], Center(palm))
         /\ final_fingers[k] # cand[CHOOSE i \in ClusterRun(k) :
                                       \A j \in ClusterRun(k) : i <= j].pt

\* the angle at far between start and end is at most 90 degrees: the two
\* directions from far exist and their scalar product is not negative
IncludedAngleAtMost90(df) ==
    /\ df.far # df.start
    /\ df.far # df.end
    /\ Dot(df.far, df.start, df.end) >= 0

\* the angle at far is within about two degrees of 60 degrees: its cosine,
\* squared, is between 0.22 and 0.28
IncludedAngleAbout60(df) ==
    LET num == Dot(df.far, df.start, df.end)
        den == Dist2(df.start, df.far) * Dist2(df.end, df.far)
    IN  num > 0 /\ 100 * num * num >= 22 * den /\ 100 * num * num <= 28 * den

\* C6: the defects script counts exactly the defects whose included angle is
\* at most 90 degrees and whose depth exceeds DepthThresh, and estimates one
\* finger more than that; no defect at all gives 1.
C6_DefectCount ==
    (script = "v1" /\ pc \in {"CandidatesGenerated", "Done"}) =>
        /\ count = 1 + Cardinality({i \in 1..Len(cand) :
                        IncludedAngleAtMost90(cand[i]) /\ cand[i].d > DepthThresh})
        /\ cand = << >> => count = 1

\* four valleys of about 60 degrees, all deeper than the threshold, and 5 fingers
C6_Witness ==
    /\ script = "v1"
    /\ pc = "Done"
    /\ Len(cand) = 4
    /\ \A i \in 1..4 : IncludedAngleAbout60(cand[i]) /\ cand[i].d > DepthThresh
    /\ count = 5

AllFourCornersWhite(m) ==
    TopLeft \in m /\ TopRight \in m /\ BottomLeft \in m /\ BottomRight \in m

\* C7: for an image without transparency the mask is inverted exactly when
\* all four corners are foreground after the threshold.
C7_InvertIffFourCorners ==
    (script \in {"peaks", "polar"} /\ binary # NoMask /\ ~img.alpha) =>
        (binary = BitwiseNot(img.thresh) <=> AllFourCornersWhite(img.thresh))

\* C8: the output of the peaks and of the polar script has at most MaxFingers
\* points, in ascending x order, and count is their number.
C8_FingertipSet ==
    (script \in {"peaks", "polar"} /\ pc = "Done") =>
        /\ Len(final_fingers) <= MaxFingers
        /\ AscendingX(final_fingers)
        /\ count = Len(final_fingers)

\* the smoothed radial profile of the contour has no peak of the required height
NoHighPeak ==
    LET x == SmoothSum(Distances(max_cnt, scene.max_loc))
    IN  \A q \in LocalMaxima(x) : ~HighEnough(x[q], scene.max_dist)

\* C9: a peaks run on a usable mask (foreground, a contour, a positive palm
\* radius) whose profile has no peak of the required height ends in Done with
\* no fingertip and count 0.
C9_ZeroFingersIsDone ==
    (/\ script = "peaks"
     /\ Terminal
     /\ mask \notin {NoMask, {}}
     /\ Len(max_cnt) > 0
     /\ scene.max_dist > 0
     /\ NoHighPeak) =>
        (pc = "Done" /\ final_fingers = << >> /\ count = 0)

StageOrder ==
    << "Idle", "Extracted", "Contoured", "PalmLocated", "CandidatesGenerated",
       "Filtered", "Selected", "Done" >>

ErrorStates == {"ImageLoadError", "NoContourError", "ValueError"}

\* a step of the invocation goes to the next stage, none skipped or repeated,
\* or from a stage that is not terminal into an error state
StageStep ==
    script \in {"peaks", "polar"} =>
        \/ \E k \in 1..(Len(StageOrder) - 1) :
              pc = StageOrder[k] /\ pc' = StageOrder[k + 1]
        \/ pc \notin ErrorStates /\ pc # "Done" /\ pc' \in ErrorStates

\* some statement of the script can run next
CanStep ==
    \/ PeaksReady
    \/ PolarReady
    \/ ENABLED (ReadFails \/ Extract \/ NoContours \/ FindContours \/ LocatePalm
                \/ FindPeaksRaises \/ FilterPeaks \/ SelectPeaks \/ WritePeaks
                \/ WritePolar)

\* C10: the stages run in order, none skipped or repeated; an invocation that
\* has not ended in Done or an error state goes on and one that has ended
\* does not; once failed no later stage runs; a result is written only in Done.
C10_StageSequence ==
    /\ [][StageStep]_vars
    /\ [](script \in {"peaks", "polar"} =>
            /\ Terminal <=> ~CanStep
            /\ (written \/ count # NoCount) => pc = "Done")

\* the point is above the line one palm radius below the palm center
\* (y grows downward)
Admissible(pt, p) == pt[2] < p.cy + p.palm_radius

\* C11: every fingertip the peaks and the polar script keep, and every
\* candidate that reaches the selection, has y strictly less than
\* cy + palm_radius, whatever its distance from the palm center.
C11_GeometricFilter ==
    (script \in {"peaks", "polar"} /\ palm # NoPalm) =>
        /\ \A pt \in Range(final_fingers) : Admissible(pt, palm)
        /\ \A pt \in Range(filtered) : Admissible(pt, palm)
        /\ script = "polar" => \A i \in 1..Len(cand) : Admissible(cand[i].pt, palm)

\* a peaks run that found a peak at or below cy + palm_radius, farther from
\* the palm center than a fingertip it kept, and dropped it
C11_Witness ==
    /\ script = "peaks"
    /\ pc = "Done"
    /\ \E i \in 1..Len(cand) :
         /\ ~Admissible(max_cnt[cand[i]], palm)
         /\ max_cnt[cand[i]] \notin Range(final_fingers)
         /\ \E pt \in Range(final_fingers) :
              Dist2(pt, Center(palm)) < Dist2(max_cnt[cand[i]], Center(palm))

\* a polar run whose hull has a point at or below cy + palm_radius, beyond
\* the distance threshold, next to a fingertip it kept
PolarDropsLowPoint ==
    /\ script = "polar"
    /\ pc = "Done"
    /\ final_fingers # << >>
    /\ \E pt \in Range(ConvexHull(max_cnt)) :
         /\ ~Admissible(pt, palm)
         /\ DistDen * DistDen * Dist2(pt, Center(palm))
              > DistNum * DistNum * palm.palm_radius * palm.palm_radius
         /\ pt \notin Range(final_fingers)

=============================================================================
